---- MODULE Spec2Model ----
(***************************************************************************)
(* Model of src/app.py (lothus-poc-reader): the batch loop of main, the    *)
(* response parser and field normaliser of extract_products_from_image,    *)
(* and build_dataframe.                                                     *)
(*                                                                          *)
(* Text is a sequence of symbols.  A symbol is one character ("R", "$",    *)
(* " ", ".", ",", a digit, a letter) or a word without inner structure     *)
(* ("products", "marca_nome", "desconto").  A model reply is a sequence of *)
(* JSON tokens [k |-> kind, s |-> symbols].                                 *)
(***************************************************************************)
EXTENDS Integers, Sequences, FiniteSets, TLC

\* pc        where main is: "idle" (before the run button), "loop", "stopped"
\*           (st.stop()) or "done"
\* apiKeyOk  whether get_openai_client returns a client
\* images    images_to_process, as the sequence of file names
\* replies   what the model call does for each image: raise, or return a text
\* idx       number of images the loop has gone through
\* products  the list last returned by extract_products_from_image
\* collected the accumulated (filename, product) pairs
\* log       per image, its file name and the exception reported by st.error
\*           ("" when none): the progress and error messages of the loop
\* ui        the last message or widget shown
\* df        the table built by build_dataframe
VARIABLES pc, apiKeyOk, images, replies, idx, products, collected, log, ui, df

vars == <<pc, apiKeyOk, images, replies, idx, products, collected, log, ui, df>>

(***************************************************************************)
(* Bounds of the model.                                                     *)
(***************************************************************************)
MaxImages == 2
MaxJunk == 2
MaxLen == 3
MaxGroups == 2
MaxConds == 2
MaxCut == 2

(***************************************************************************)
(* Python values.  A number is an exact non-negative decimal, kept as the   *)
(* digits before and after the point, without leading zeros before it and  *)
(* without trailing zeros after it (so 29.90 and 29.9 are the same value).  *)
(***************************************************************************)
None == [t |-> "none"]
PyStr(s) == [t |-> "str", s |-> s]
PyBool(b) == [t |-> "bool", b |-> b]
PyNaN == [t |-> "nan"]
PyInf == [t |-> "inf"]
PyList(items) == [t |-> "list", items |-> items]
PyDict(d) == [t |-> "dict", d |-> d]
EmptyDict == PyDict(<<>>)
EmptyStr == PyStr(<<>>)

RECURSIVE DropLeadingZeros(_)
DropLeadingZeros(s) == IF s # <<>> /\ s[1] = "0" THEN DropLeadingZeros(Tail(s)) ELSE s
RECURSIVE DropTrailingZeros(_)
DropTrailingZeros(s) ==
    IF s # <<>> /\ s[Len(s)] = "0" THEN DropTrailingZeros(SubSeq(s, 1, Len(s) - 1))
    ELSE s

\* the number written ip.fp
Num(ip, fp) == [t |-> "num", ip |-> DropLeadingZeros(ip), fp |-> DropTrailingZeros(fp)]
Zero == Num(<<>>, <<>>)
One == Num(<<"1">>, <<>>)

\* A dictionary key: the word as one symbol.
K(name) == <<name>>

\* bool(v): the values Python treats as false are None, "", 0, False, [], {}.
Truthy(v) ==
    CASE v.t = "none" -> FALSE
      [] v.t = "str" -> v.s # <<>>
      [] v.t = "num" -> v # Zero
      [] v.t = "bool" -> v.b
      [] v.t = "list" -> v.items # <<>>
      [] v.t = "dict" -> DOMAIN v.d # {}
      [] OTHER -> TRUE

\* a or b
Or(a, b) == IF Truthy(a) THEN a ELSE b

\* d.get(k) and d.get(k, default) on a dict value d
GetOr(d, k, default) == IF k \in DOMAIN d.d THEN d.d[k] ELSE default
Get(d, k) == GetOr(d, k, None)

(***************************************************************************)
(* Decimal text.                                                            *)
(***************************************************************************)
Digits == {"0", "1", "2", "3", "4", "5", "6", "7", "8", "9"}
IsDigit(c) == c \in Digits

\* the JSON literal / str() text of a number
NumText(v) ==
    (IF v.ip = <<>> THEN <<"0">> ELSE v.ip) \o (IF v.fp = <<>> THEN <<>> ELSE <<".">> \o v.fp)

AllDigits(s) == \A i \in 1..Len(s) : IsDigit(s[i])

\* index of the first occurrence of symbol c in s, 0 when there is none
RECURSIVE IndexOf(_, _, _)
IndexOf(s, c, i) ==
    IF i > Len(s) THEN 0
    ELSE IF s[i] = c THEN i
    ELSE IndexOf(s, c, i + 1)

\* s.strip() for text whose only whitespace symbol is " "
RECURSIVE LStrip(_)
LStrip(s) == IF s # <<>> /\ s[1] = " " THEN LStrip(Tail(s)) ELSE s
RECURSIVE RStrip(_)
RStrip(s) ==
    IF s # <<>> /\ s[Len(s)] = " " THEN RStrip(SubSeq(s, 1, Len(s) - 1)) ELSE s
StripSpaces(s) == RStrip(LStrip(s))

(***************************************************************************)
(* JSON text: tokens, the model's serialisation of a value, json.loads.     *)
(***************************************************************************)
Tok(k) == [k |-> k, s |-> <<>>]
StrTok(s) == [k |-> "str", s |-> s]
NumTok(s) == [k |-> "num", s |-> s]
LitTok(w) == [k |-> "lit", s |-> <<w>>]
Ws == Tok("ws")
Word == [k |-> "word", s |-> <<"text">>]

\* The JSON text a value is written as (separators ", " and ": ").
RECURSIVE Dumps(_), DumpsItems(_), DumpsMembers(_, _)
Dumps(v) ==
    CASE v.t = "none" -> <<LitTok("null")>>
      [] v.t = "bool" -> <<LitTok(IF v.b THEN "true" ELSE "false")>>
      [] v.t = "nan" -> <<LitTok("NaN")>>
      [] v.t = "inf" -> <<LitTok("Infinity")>>
      [] v.t = "str" -> <<StrTok(v.s)>>
      [] v.t = "num" -> <<NumTok(NumText(v))>>
      [] v.t = "list" -> <<Tok("[")>> \o DumpsItems(v.items) \o <<Tok("]")>>
      [] v.t = "dict" -> <<Tok("{")>> \o DumpsMembers(v.d, DOMAIN v.d) \o <<Tok("}")>>
DumpsItems(items) ==
    IF items = <<>> THEN <<>>
    ELSE IF Len(items) = 1 THEN Dumps(items[1])
    ELSE Dumps(items[1]) \o <<Tok(","), Ws>> \o DumpsItems(Tail(items))
DumpsMembers(d, keys) ==
    IF keys = {} THEN <<>>
    ELSE LET k == CHOOSE x \in keys : TRUE
             member == <<StrTok(k), Tok(":"), Ws>> \o Dumps(d[k])
         IN  IF keys = {k} THEN member
             ELSE member \o <<Tok(","), Ws>> \o DumpsMembers(d, keys \ {k})

\* The characters of a token sequence (used for str() of a list or dict; the
\* quote style of Python's repr is kept, its spacing is that of Dumps).
RECURSIVE Flatten(_)
Flatten(toks) ==
    IF toks = <<>> THEN <<>>
    ELSE LET tk == toks[1]
             head == CASE tk.k = "str" -> <<"'">> \o tk.s \o <<"'">>
                       [] tk.k \in {"num", "lit", "word"} -> tk.s
                       [] tk.k = "ws" -> <<" ">>
                       [] OTHER -> <<tk.k>>
         IN  head \o Flatten(Tail(toks))

\* first position at or after i that is not whitespace
RECURSIVE SkipWs(_, _)
SkipWs(s, i) == IF i <= Len(s) /\ s[i].k = "ws" THEN SkipWs(s, i + 1) ELSE i

ParseFail == [ok |-> FALSE, val |-> None, pos |-> 0]
ParseOk(v, p) == [ok |-> TRUE, val |-> v, pos |-> p]

\* the value of a JSON number literal: digits, optionally "." and digits
NumLiteral(s) ==
    LET p == IndexOf(s, ".", 1)
    IN  IF p = 0 THEN Num(s, <<>>)
        ELSE Num(SubSeq(s, 1, p - 1), SubSeq(s, p + 1, Len(s)))

LitValue(w) ==
    CASE w = "null" -> None
      [] w = "true" -> PyBool(TRUE)
      [] w = "false" -> PyBool(FALSE)
      [] w = "NaN" -> PyNaN
      [] OTHER -> PyInf

\* json's recursive-descent decoder; i is the position of the value's first token
RECURSIVE ParseValue(_, _), ParseElements(_, _, _), ParseMembers(_, _, _)
ParseValue(s, i) ==
    IF i > Len(s) THEN ParseFail
    ELSE CASE s[i].k = "str" -> ParseOk(PyStr(s[i].s), i + 1)
           [] s[i].k = "num" -> ParseOk(NumLiteral(s[i].s), i + 1)
           [] s[i].k = "lit" -> ParseOk(LitValue(s[i].s[1]), i + 1)
           [] s[i].k = "[" ->
                LET j == SkipWs(s, i + 1)
                IN  IF j <= Len(s) /\ s[j].k = "]" THEN ParseOk(PyList(<<>>), j + 1)
                    ELSE ParseElements(s, j, <<>>)
           [] s[i].k = "{" ->
                LET j == SkipWs(s, i + 1)
                IN  IF j <= Len(s) /\ s[j].k = "}" THEN ParseOk(EmptyDict, j + 1)
                    ELSE ParseMembers(s, j, <<>>)
           [] OTHER -> ParseFail
ParseElements(s, i, acc) ==
    LET r == ParseValue(s, i)
    IN  IF ~r.ok THEN ParseFail
        ELSE LET j == SkipWs(s, r.pos)
             IN  IF j > Len(s) THEN ParseFail
                 ELSE IF s[j].k = "," THEN
                     ParseElements(s, SkipWs(s, j + 1), Append(acc, r.val))
                 ELSE IF s[j].k = "]" THEN ParseOk(PyList(Append(acc, r.val)), j + 1)
                 ELSE ParseFail
ParseMembers(s, i, acc) ==
    IF i > Len(s) \/ s[i].k # "str" THEN ParseFail
    ELSE LET c == SkipWs(s, i + 1)
         IN  IF c > Len(s) \/ s[c].k # ":" THEN ParseFail
             ELSE LET r == ParseValue(s, SkipWs(s, c + 1))
                  IN  IF ~r.ok THEN ParseFail
                      ELSE LET j == SkipWs(s, r.pos)
                               acc2 == (s[i].s :> r.val) @@ acc
                           IN  IF j > Len(s) THEN ParseFail
                               ELSE IF s[j].k = "," THEN
                                   ParseMembers(s, SkipWs(s, j + 1), acc2)
                               ELSE IF s[j].k = "}" THEN ParseOk(PyDict(acc2), j + 1)
                               ELSE ParseFail

\* The result of a call that may raise: exc = "" when it returned val.
Returned(v) == [exc |-> "", val |-> v]
Raised(e) == [exc |-> e, val |-> None]

\* json.loads(text): one value, whitespace around it, nothing else
Loads(text) ==
    LET r == ParseValue(text, SkipWs(text, 1))
    IN  IF r.ok /\ SkipWs(text, r.pos) > Len(text) THEN Returned(r.val)
        ELSE Raised("JSONDecodeError")

(***************************************************************************)
(* Python builtins used by the field normaliser.                            *)
(***************************************************************************)
\* s.replace(old, new): every non-overlapping occurrence, left to right
RECURSIVE Replace(_, _, _)
Replace(s, old, new) ==
    IF Len(s) < Len(old) THEN s
    ELSE IF SubSeq(s, 1, Len(old)) = old THEN
        new \o Replace(SubSeq(s, Len(old) + 1, Len(s)), old, new)
    ELSE <<s[1]>> \o Replace(Tail(s), old, new)

\* float(text): surrounding whitespace is ignored; "nan", "inf" and "infinity"
\* are accepted; otherwise digits with at most one "." and at least one digit.
\* (Signs, exponents, underscores and upper case are outside the symbols used.)
FloatOfText(s) ==
    LET t == StripSpaces(s)
        p == IndexOf(t, ".", 1)
        ip == IF p = 0 THEN t ELSE SubSeq(t, 1, p - 1)
        fp == IF p = 0 THEN <<>> ELSE SubSeq(t, p + 1, Len(t))
    IN  IF t = <<"n", "a", "n">> THEN Returned(PyNaN)
        ELSE IF t \in {<<"i", "n", "f">>, <<"i", "n", "f", "i", "n", "i", "t", "y">>}
            THEN Returned(PyInf)
        ELSE IF AllDigits(ip) /\ AllDigits(fp) /\ Len(ip) + Len(fp) > 0
            THEN Returned(Num(ip, fp))
        ELSE Raised("ValueError")

\* float(v) for a value that is not None (integers too large for a float are
\* outside the values used)
PyFloat(v) ==
    CASE v.t \in {"num", "nan", "inf"} -> Returned(v)
      [] v.t = "bool" -> Returned(IF v.b THEN One ELSE Zero)
      [] v.t = "str" -> FloatOfText(v.s)
      [] OTHER -> Raised("TypeError")

\* str(v)
StrOf(v) ==
    CASE v.t = "str" -> v.s
      [] v.t = "num" -> NumText(v)
      [] v.t = "none" -> <<"None">>
      [] v.t = "bool" -> IF v.b THEN <<"True">> ELSE <<"False">>
      [] v.t = "nan" -> <<"n", "a", "n">>
      [] v.t = "inf" -> <<"i", "n", "f">>
      [] OTHER -> Flatten(Dumps(v))

(***************************************************************************)
(* extract_products_from_image                                              *)
(***************************************************************************)
\* content.strip() on tokens
RECURSIVE StripWs(_)
StripWs(c) ==
    IF c # <<>> /\ c[1].k = "ws" THEN StripWs(Tail(c))
    ELSE IF c # <<>> /\ c[Len(c)].k = "ws" THEN StripWs(SubSeq(c, 1, Len(c) - 1))
    ELSE c

\* content.find("{"): first position of a token of kind k, 0 when none
RECURSIVE Find(_, _, _)
Find(c, k, i) ==
    IF i > Len(c) THEN 0
    ELSE IF c[i].k = k THEN i
    ELSE Find(c, k, i + 1)

\* (variant: the first "}" is taken instead of the last)
RFindFirst(c, k, i) == Find(c, k, 1)

\* content.rfind("}"): last position of a token of kind k, 0 when none
RECURSIVE RFind(_, _, _)
RFind(c, k, i) ==
    IF i < 1 THEN 0
    ELSE IF c[i].k = k THEN i
    ELSE RFind(c, k, i - 1)

NoProductsPayload == PyDict(K("products") :> PyList(<<>>))

\* Response Parser: strict parse, then the first-"{"-to-last-"}" recovery parse,
\* whose own failure is not caught.
ParsePayload(content) ==
    LET strict == Loads(content)
        stripped == StripWs(content)
        start == Find(stripped, "{", 1)
        end == RFind(stripped, "}", Len(stripped))
    IN  IF strict.exc = "" THEN strict
        ELSE IF start # 0 /\ end # 0 THEN Loads(SubSeq(stripped, start, end))
        ELSE Returned(NoProductsPayload)

\* payload.get("products", []) or []
ProductsOf(payload) ==
    IF payload.t # "dict" THEN Raised("AttributeError")
    ELSE Returned(Or(GetOr(payload, K("products"), PyList(<<>>)), PyList(<<>>)))

\* the keys of a dict as a sequence
RECURSIVE KeySeq(_)
KeySeq(keys) ==
    IF keys = {} THEN <<>>
    ELSE LET k == CHOOSE x \in keys : TRUE IN <<PyStr(k)>> \o KeySeq(keys \ {k})

\* for p in products: what iterating the value yields
IterOf(v) ==
    CASE v.t = "list" -> Returned(v.items)
      [] v.t = "str" -> Returned([i \in 1..Len(v.s) |-> PyStr(<<v.s[i]>>)])
      [] v.t = "dict" -> Returned(KeySeq(DOMAIN v.d))
      [] OTHER -> Raised("TypeError")

\* p.get("preco_brl_texto") or p.get("preco_texto") or ""
PriceTextField(p) ==
    Or(Or(Get(p, K("preco_brl_texto")), Get(p, K("preco_texto"))), EmptyStr)

\* str(preco_brl_val or preco_brl_texto or "")
PriceText(p) == StrOf(Or(Or(Get(p, K("preco_brl")), PriceTextField(p)), EmptyStr))

\* (variant: the decimal comma is replaced before the grouping dots are removed)
CleanPriceTextCommaFirst(text) ==
    LET noMarker == Replace(Replace(text, <<"R", "$">>, <<>>), <<" ">>, <<>>)
    IN  Replace(Replace(noMarker, <<",">>, <<".">>), <<".">>, <<>>)

\* .replace("R$", "").replace(" ", "") then .replace(".", "").replace(",", ".")
CleanPriceText(text) ==
    LET noMarker == Replace(Replace(text, <<"R", "$">>, <<>>), <<" ">>, <<>>)
    IN  Replace(Replace(noMarker, <<".">>, <<>>), <<",">>, <<".">>)

\* (variant: a price that cannot be parsed becomes 0.0)
NormalizePriceZeroDefault(p) ==
    LET preco_brl_val == Get(p, K("preco_brl"))
        direct == PyFloat(preco_brl_val)
        cleaned == FloatOfText(CleanPriceText(PriceText(p)))
    IN  IF preco_brl_val = None THEN None
        ELSE IF direct.exc = "" THEN direct.val
        ELSE IF cleaned.exc = "" THEN cleaned.val
        ELSE Zero

\* the price of one raw product: direct float(), then the cleanup of the text
NormalizePrice(p) ==
    LET preco_brl_val == Get(p, K("preco_brl"))
        direct == PyFloat(preco_brl_val)
        cleaned == FloatOfText(CleanPriceText(PriceText(p)))
    IN  IF preco_brl_val = None THEN None
        ELSE IF direct.exc = "" THEN direct.val
        ELSE IF cleaned.exc = "" THEN cleaned.val
        ELSE None

\* the conditions of one raw product
NormalizeConditions(p) ==
    LET condicoes == Or(Get(p, K("condicoes")), PyList(<<>>))
        wrapped == IF condicoes.t = "dict" THEN PyList(<<condicoes>>) ELSE condicoes
    IN  IF wrapped.t # "list" THEN PyList(<<>>) ELSE wrapped

\* Field Normalizer: the record appended for one raw product (a dict)
NormalizeProduct(p) ==
    [marca_nome |->
        Or(Or(Or(Get(p, K("marca_nome")), Get(p, K("marca+nome"))), Get(p, K("nome"))),
           EmptyStr),
     marca |-> Or(Get(p, K("marca")), EmptyStr),
     produto |-> Or(Get(p, K("produto")), EmptyStr),
     preco_brl |-> NormalizePrice(p),
     preco_brl_texto |-> PriceTextField(p),
     condicoes |-> NormalizeConditions(p)]

\* (variant: each record is inserted at the front of the list)
RECURSIVE NormalizeAllReversed(_)
NormalizeAllReversed(items) ==
    IF items = <<>> THEN Returned(<<>>)
    ELSE IF items[1].t # "dict" THEN Raised("AttributeError")
    ELSE LET rest == NormalizeAllReversed(Tail(items))
         IN  IF rest.exc # "" THEN rest
             ELSE Returned(rest.val \o <<NormalizeProduct(items[1])>>)

\* the loop over products; p.get on a p that is not a dict raises
RECURSIVE NormalizeAll(_)
NormalizeAll(items) ==
    IF items = <<>> THEN Returned(<<>>)
    ELSE IF items[1].t # "dict" THEN Raised("AttributeError")
    ELSE LET rest == NormalizeAll(Tail(items))
         IN  IF rest.exc # "" THEN rest
             ELSE Returned(<<NormalizeProduct(items[1])>> \o rest.val)

\* the text of a model reply: the payload as JSON, possibly cut short at the
\* end, between leading and trailing text
Truncate(c, cut) == SubSeq(c, 1, Len(c) - cut)
Content(reply) == reply.lead \o Truncate(Dumps(reply.payload), reply.cut) \o reply.trail

\* parsing and normalising the text the model returned
ExtractFromContent(content) ==
    LET payload == ParsePayload(content)
        prods == ProductsOf(payload.val)
        iter == IterOf(prods.val)
    IN  IF payload.exc # "" THEN payload
        ELSE IF prods.exc # "" THEN prods
        ELSE IF iter.exc # "" THEN iter
        ELSE NormalizeAll(iter.val)

\* extract_products_from_image: the model call, then parsing and normalising
ExtractProducts(reply) ==
    IF reply.raises THEN Raised("APIError")
    ELSE ExtractFromContent(Content(reply))

(***************************************************************************)
(* build_dataframe                                                          *)
(***************************************************************************)
RECURSIVE Join(_, _)
Join(parts, sep) ==
    IF parts = <<>> THEN <<>>
    ELSE IF Len(parts) = 1 THEN parts[1]
    ELSE parts[1] \o sep \o Join(Tail(parts), sep)

\* (variant: no default for a missing kind)
ConditionTextNoDefault(c) ==
    StrOf(Or(Get(c, K("tipo")), EmptyStr)) \o <<":", " ">>
        \o StrOf(Or(Get(c, K("valor")), EmptyStr))

\* f"{(c.get('tipo') or 'outro')}: {c.get('valor') or ''}"
ConditionText(c) ==
    StrOf(Or(Get(c, K("tipo")), PyStr(<<"outro">>))) \o <<":", " ">>
        \o StrOf(Or(Get(c, K("valor")), EmptyStr))

\* condicoes_str of one product
ConditionsText(product) ==
    LET condicoes == Or(product.condicoes, PyList(<<>>))
        dicts == SelectSeq(condicoes.items, LAMBDA c : c.t = "dict")
    IN  IF condicoes.t = "list" THEN
            Join([i \in 1..Len(dicts) |-> ConditionText(dicts[i])], <<";", " ">>)
        ELSE StrOf(condicoes)

\* the record appended for one (filename, product) pair
RecordOf(row) ==
    [arquivo |-> row[1],
     marca_nome |-> row[2].marca_nome,
     marca |-> row[2].marca,
     produto |-> row[2].produto,
     preco_brl |-> row[2].preco_brl,
     preco_brl_texto |-> row[2].preco_brl_texto,
     condicoes |-> PyStr(ConditionsText(row[2]))]

desired ==
    <<"arquivo", "marca_nome", "marca", "produto", "preco_brl", "preco_brl_texto",
      "condicoes">>

\* pd.DataFrame.from_records(records).columns: the keys of the records, none
\* when there is no record
ColumnsOf(records) == IF records = <<>> THEN <<>> ELSE desired

NoTable == [built |-> FALSE, columns |-> <<>>, rows |-> <<>>]

BuildDataframe(rows) ==
    LET records == [i \in 1..Len(rows) |-> RecordOf(rows[i])]
        columns == ColumnsOf(records)
    IN  [built |-> TRUE,
         columns |-> SelectSeq(desired, LAMBDA c : \E i \in 1..Len(columns) : columns[i] = c),
         rows |-> records]

(***************************************************************************)
(* main: the run button, the batch loop, the result.                        *)
(***************************************************************************)
\* if run: no images -> warning and stop; no client -> error and stop
Run ==
    /\ pc = "idle"
    /\ IF images = <<>> THEN pc' = "stopped" /\ ui' = "warning"
       ELSE IF ~apiKeyOk THEN pc' = "stopped" /\ ui' = "error"
       ELSE pc' = "loop" /\ ui' = "progress"
    /\ UNCHANGED <<apiKeyOk, images, replies, idx, products, collected, log, df>>

\* (variant: the first failure ends the loop)
ProcessImageAbortOnError ==
    /\ pc = "loop"
    /\ idx < Len(images)
    /\ LET filename == images[idx + 1]
           r == ExtractProducts(replies[idx + 1])
       IN  IF r.exc = "" THEN
               /\ products' = r.val
               /\ collected' = collected \o [k \in 1..Len(r.val) |-> <<filename, r.val[k]>>]
               /\ log' = Append(log, [file |-> filename, exc |-> ""])
               /\ idx' = idx + 1
           ELSE
               /\ log' = Append(log, [file |-> filename, exc |-> r.exc])
               /\ idx' = Len(images)
               /\ UNCHANGED <<products, collected>>
    /\ UNCHANGED <<pc, apiKeyOk, images, replies, ui, df>>

\* one iteration of the loop over images_to_process
ProcessImage ==
    /\ pc = "loop"
    /\ idx < Len(images)
    /\ LET filename == images[idx + 1]
           r == ExtractProducts(replies[idx + 1])
       IN  IF r.exc = "" THEN
               /\ products' = r.val
               /\ collected' = collected \o [k \in 1..Len(r.val) |-> <<filename, r.val[k]>>]
               /\ log' = Append(log, [file |-> filename, exc |-> ""])
           ELSE
               /\ log' = Append(log, [file |-> filename, exc |-> r.exc])
               /\ UNCHANGED <<products, collected>>
    /\ idx' = idx + 1
    /\ UNCHANGED <<pc, apiKeyOk, images, replies, ui, df>>

\* (variant: the table is built even when nothing was collected)
FinishAlwaysTable ==
    /\ pc = "loop"
    /\ idx = Len(images)
    /\ pc' = "done" /\ ui' = "table" /\ df' = BuildDataframe(collected)
    /\ UNCHANGED <<apiKeyOk, images, replies, idx, products, collected, log>>

\* after the loop: nothing collected -> info and stop; else the table
Finish ==
    /\ pc = "loop"
    /\ idx = Len(images)
    /\ IF collected = <<>> THEN pc' = "stopped" /\ ui' = "info" /\ df' = df
       ELSE pc' = "done" /\ ui' = "table" /\ df' = BuildDataframe(collected)
    /\ UNCHANGED <<apiKeyOk, images, replies, idx, products, collected, log>>

Next == Run \/ ProcessImage \/ Finish

(***************************************************************************)
(* Inputs: image file names and what the model replies for each image.      *)
(***************************************************************************)
FileNames == {"banner1.jpg", "flyer2.png"}

\* sequences over S of length at most n
RECURSIVE SeqsUpTo(_, _)
SeqsUpTo(S, n) ==
    IF n = 0 THEN {<<>>}
    ELSE LET shorter == SeqsUpTo(S, n - 1)
         IN  shorter \cup {Append(q, x) : q \in {y \in shorter : Len(y) = n - 1}, x \in S}

Text(w) == PyStr(<<w>>)
Obj1(k1, v1) == PyDict(K(k1) :> v1)
Obj2(k1, v1, k2, v2) == PyDict((K(k1) :> v1) @@ (K(k2) :> v2))
ProductsPayload(ps) == Obj1("products", PyList(ps))

BareReply(payload) ==
    [raises |-> FALSE, lead |-> <<>>, payload |-> payload, cut |-> 0, trail |-> <<>>]
FailingCall == [raises |-> TRUE, lead |-> <<>>, payload |-> None, cut |-> 0, trail |-> <<>>]

InitWith(imageLists, replySet, keys) ==
    /\ pc = "idle"
    /\ apiKeyOk \in keys
    /\ images \in imageLists
    /\ replies \in [1..Len(images) -> replySet]
    /\ idx = 0
    /\ products = <<>>
    /\ collected = <<>>
    /\ log = <<>>
    /\ ui = "none"
    /\ df = NoTable

\* --- the batch: a few replies, several images ---------------------------
Discount == Obj2("tipo", Text("desconto"), "valor", Text("10%"))
Cola ==
    PyDict((K("marca_nome") :> Text("Acme Cola")) @@ (K("preco_brl") :> Num(<<"1", "9">>, <<"9">>))
           @@ (K("preco_brl_texto") :> PyStr(<<"R", "$", " ", "1", "9", ",", "9", "0">>))
           @@ (K("condicoes") :> PyList(<<Discount>>)))
Soap == Obj2("nome", Text("Soap"), "preco_brl", PyStr(<<"R", "$", " ", "2", "9", ",", "9", "0">>))

BatchReplies ==
    {FailingCall,
     BareReply(ProductsPayload(<<>>)),
     BareReply(ProductsPayload(<<Cola>>)),
     BareReply(ProductsPayload(<<Soap, Cola>>)),
     BareReply(EmptyDict),
     [BareReply(ProductsPayload(<<Soap>>)) EXCEPT !.lead = <<Word, Ws>>, !.trail = <<Ws, Word>>],
     [BareReply(ProductsPayload(<<Cola>>)) EXCEPT !.cut = 1],
     [BareReply(ProductsPayload(<<Cola>>)) EXCEPT !.lead = <<Tok("{"), Word>>],
     BareReply(ProductsPayload(<<Cola, Text("Soap")>>))}

Init == InitWith(SeqsUpTo(FileNames, MaxImages), BatchReplies, BOOLEAN)

Spec == Init /\ [][Next]_vars

(***************************************************************************)
(* C2, C4, C8: the batch loop and its result (specification Spec).          *)
(***************************************************************************)
\* the (filename, record) pairs of one image, none when its processing raises
PairsOf(i) ==
    LET r == ExtractProducts(replies[i])
    IN  IF r.exc # "" THEN <<>>
        ELSE [k \in 1..Len(r.val) |-> <<images[i], r.val[k]>>]

RECURSIVE PairsUpTo(_)
PairsUpTo(n) == IF n = 0 THEN <<>> ELSE PairsUpTo(n - 1) \o PairsOf(n)

RECURSIVE CountUpTo(_)
CountUpTo(n) == IF n = 0 THEN 0 ELSE CountUpTo(n - 1) + Len(PairsOf(n))

LoopOver == ui \in {"info", "table"}

\* C2: whatever subset of the images raises (in the model call or in parsing),
\* every image is attempted exactly once, in order, and the accumulated list is
\* the concatenation, in image order and within an image in returned order, of
\* the (filename, record) pairs of the images that did not raise; its length is
\* the sum of their product counts.
C2_BatchIsolation ==
    /\ Len(log) = idx
    /\ idx <= Len(images)
    /\ \A i \in 1..idx :
          /\ log[i].file = images[i]
          /\ (log[i].exc # "") <=> (ExtractProducts(replies[i]).exc # "")
    /\ collected = PairsUpTo(idx)
    /\ Len(collected) = CountUpTo(idx)
    /\ LoopOver => idx = Len(images)

\* a finished batch in which an image raised and a later one contributed records
W_C2_BatchIsolation ==
    /\ pc = "done"
    /\ \E i, j \in 1..Len(images) :
          /\ i < j
          /\ log[i].exc # ""
          /\ log[j].exc = ""
          /\ PairsOf(j) # <<>>

\* a reply that is exactly a JSON object whose products array holds objects
WellFormed(reply) ==
    /\ ~reply.raises
    /\ reply.lead = <<>> /\ reply.trail = <<>> /\ reply.cut = 0
    /\ reply.payload.t = "dict"
    /\ K("products") \in DOMAIN reply.payload.d
    /\ reply.payload.d[K("products")].t = "list"
    /\ \A k \in 1..Len(reply.payload.d[K("products")].items) :
          reply.payload.d[K("products")].items[k].t = "dict"

RawProductsOf(reply) == reply.payload.d[K("products")].items

\* C4: a well-formed reply with N product objects gives exactly N normalised
\* records, in the same order, and the loop appends each of them with the
\* image's (non-null) file name.
C4_OneRecordPerProduct ==
    (idx >= 1 /\ WellFormed(replies[idx])) =>
        LET raw == RawProductsOf(replies[idx])
            n == Len(raw)
            base == Len(collected) - n
        IN  /\ log[idx].exc = ""
            /\ Len(products) = n
            /\ \A k \in 1..n : products[k] = NormalizeProduct(raw[k])
            /\ base >= 0
            /\ \A k \in 1..n :
                  /\ collected[base + k][2] = products[k]
                  /\ collected[base + k][1] = images[idx]
                  /\ collected[base + k][1] \in FileNames

\* a well-formed reply with two different products has been processed
W_C4_OneRecordPerProduct ==
    /\ idx >= 1
    /\ WellFormed(replies[idx])
    /\ Len(RawProductsOf(replies[idx])) = 2
    /\ Len(products) = 2
    /\ products[1] # products[2]

\* every reply of the batch is processed without error and holds no product
AllEmpty == \A i \in 1..Len(images) : ExtractProducts(replies[i]) = Returned(<<>>)

RunOver == pc \in {"stopped", "done"} /\ ui # "error"

\* C8 as stated: an empty image list, or a batch whose replies all hold zero
\* products, yields a table with the fixed column headers and zero rows.
C8_Stated ==
    (RunOver /\ (images = <<>> \/ AllEmpty)) =>
        (df.built /\ df.columns = desired /\ df.rows = <<>>)

\* C8 amended: an empty image list ends the run with a warning, a batch whose
\* replies all hold zero products ends it with the "no product found" message;
\* in both cases no table is built (no headers, no rows), and build_dataframe
\* on an empty list gives a table with no columns and no rows.
C8_EmptyResult ==
    /\ (RunOver /\ images = <<>>) => (ui = "warning" /\ df = NoTable)
    /\ (RunOver /\ images # <<>> /\ AllEmpty) => (ui = "info" /\ df = NoTable)
    /\ BuildDataframe(<<>>).columns = <<>>
    /\ BuildDataframe(<<>>).rows = <<>>

\* a batch of images whose replies all hold zero products has ended
W_C8_EmptyResult == RunOver /\ images # <<>> /\ AllEmpty /\ idx = Len(images)

(***************************************************************************)
(* C1, C5: the Response Parser on one reply (specification SpecParse).      *)
(***************************************************************************)
LeadTokens == {Word, Ws, Tok("{"), Tok("}"), Tok("[")}
TrailTokens == {Word, Ws, Tok("{"), Tok("}"), Tok("]")}

ParsePayloads ==
    {ProductsPayload(<<Cola>>),
     ProductsPayload(<<Soap, Cola>>),
     ProductsPayload(<<>>),
     EmptyDict}

OtherPayloads == {Obj1("result", PyList(<<Cola>>)), PyList(<<Cola>>), None, Text("sorry")}

ParseReplies ==
    {[raises |-> FALSE, lead |-> l, payload |-> j, cut |-> 0, trail |-> t] :
        l \in SeqsUpTo(LeadTokens, MaxJunk), j \in ParsePayloads,
        t \in SeqsUpTo(TrailTokens, MaxJunk)}
    \cup {[BareReply(j) EXCEPT !.cut = c] :
            j \in ParsePayloads \cup OtherPayloads, c \in 0..MaxCut}
    \cup {FailingCall}

InitParse == InitWith(SeqsUpTo({"banner1.jpg"}, 1), ParseReplies, {TRUE})

SpecParse == InitParse /\ [][Next]_vars

\* a parsed JSON object without a products key
LacksProducts(v) == v.t = "dict" /\ K("products") \notin DOMAIN v.d

\* the model output is malformed: strict parsing and the recovery parse both
\* fail, or the object that was parsed has no products key
Malformed(content) ==
    LET strict == Loads(content)
        stripped == StripWs(content)
        start == Find(stripped, "{", 1)
        end == RFind(stripped, "}", Len(stripped))
        recovered == IF start # 0 /\ end # 0 THEN Loads(SubSeq(stripped, start, end))
                     ELSE Raised("JSONDecodeError")
    IN  IF strict.exc = "" THEN LacksProducts(strict.val)
        ELSE recovered.exc # "" \/ LacksProducts(recovered.val)

\* C1: for every text the model returns, if strict parsing and the recovery
\* parse both fail, or the parsed result lacks a products key, the function
\* returns an empty product list and raises nothing.
C1_ParserNeverRaises ==
    (idx = 1 /\ ~replies[1].raises /\ Malformed(Content(replies[1]))) =>
        (log[1].exc = "" /\ products = <<>> /\ collected = <<>>)

\* the payload is an object {"products": [...]} of product objects
IsProductsObject(reply) == WellFormed(BareReply(reply.payload))

\* what parsing the bare object J gives
BareResult(reply) == ExtractFromContent(Dumps(reply.payload))

\* C5 as stated: for any object J = {"products": [...]} and any leading and
\* trailing non-JSON text, parsing lead+J+trail gives the product list that
\* parsing J alone gives.
C5_Stated ==
    (idx = 1 /\ ~replies[1].raises /\ replies[1].cut = 0 /\ IsProductsObject(replies[1])) =>
        (log[1].exc = "" /\ products = BareResult(replies[1]).val)

AllWs(c) == \A i \in 1..Len(c) : c[i].k = "ws"

\* the surrounding text the recovery parse copes with: no "{" before J, no "}"
\* after J, and lead+J+trail is not itself a JSON document, unless the
\* surrounding text is whitespace only
Recoverable(reply) ==
    /\ Find(reply.lead, "{", 1) = 0
    /\ RFind(reply.trail, "}", Len(reply.trail)) = 0
    /\ \/ AllWs(reply.lead) /\ AllWs(reply.trail)
       \/ Loads(Content(reply)).exc # ""

\* C5 amended: for any object J = {"products": [...]}, any leading text without
\* "{" and any trailing text without "}" such that lead+J+trail is not itself a
\* JSON document (other than J padded with whitespace), parsing lead+J+trail
\* gives the product list that parsing J alone gives.
C5_RecoveryParse ==
    (idx = 1 /\ ~replies[1].raises /\ replies[1].cut = 0 /\ IsProductsObject(replies[1])
        /\ Recoverable(replies[1])) =>
        (log[1].exc = "" /\ products = BareResult(replies[1]).val)

\* a products object between non-whitespace text has been parsed by recovery
W_C5_RecoveryParse ==
    /\ idx = 1
    /\ IsProductsObject(replies[1])
    /\ Recoverable(replies[1])
    /\ replies[1].lead = <<Word>>
    /\ replies[1].trail = <<Word>>
    /\ Loads(Content(replies[1])).exc # ""
    /\ log[1].exc = ""
    /\ Len(products) = 2

(***************************************************************************)
(* C3, C6, C7, C9, C10: the Field Normalizer and the rendering of one raw   *)
(* product (specification SpecNormalize).                                   *)
(***************************************************************************)
\* a price written the Brazilian way: optional marker, a head of digits,
\* groups of three digits after ".", optionally "," and two decimals, and
\* possibly a space after it
Markers == {<<>>, <<"R", "$">>, <<"R", "$", " ">>}
Heads == {<<"1">>, <<"2", "9">>, <<"0">>}
Groups == {<<"2", "3", "4">>, <<"0", "0", "0">>}
Cents == {<<>>, <<"9", "0">>, <<"5", "6">>}
Pads == {<<>>, <<" ">>}

BRPrices ==
    [marker : Markers, head : Heads, groups : SeqsUpTo(Groups, MaxGroups), cents : Cents,
     pad : Pads]

RECURSIVE Flat(_)
Flat(seqs) == IF seqs = <<>> THEN <<>> ELSE seqs[1] \o Flat(Tail(seqs))

\* the text of a Brazilian price
BRText(d) ==
    d.marker \o d.head \o Flat([i \in 1..Len(d.groups) |-> <<".">> \o d.groups[i]])
        \o (IF d.cents = <<>> THEN <<>> ELSE <<",">> \o d.cents) \o d.pad

\* the amount it denotes
BRAmount(d) == Num(d.head \o Flat(d.groups), d.cents)

\* the price field each Brazilian price is given as
BRField == [d \in BRPrices |-> PyStr(BRText(d))]

PriceChars == {" ", ".", ",", "1", "0"}

PriceTexts ==
    {m \o t : m \in Markers, t \in SeqsUpTo(PriceChars, MaxLen)}
    \cup {BRText(d) : d \in BRPrices}
    \cup {<<"n", "a", "n">>, <<"i", "n", "f">>, <<"R", "$", " ", "i", "n", "f">>,
          <<"a", "b", "c">>, <<"R", " ", "R", "$", "$", " ", "1">>}

PriceValues ==
    {PyStr(t) : t \in PriceTexts}
    \cup {Num(<<"1", "9">>, <<"9">>), Zero, Num(<<"5">>, <<>>)}
    \cup {None, PyBool(TRUE), PyList(<<>>), PyList(<<Text("x")>>), EmptyDict, PyNaN, PyInf}

PriceProducts ==
    {Obj1("preco_brl", v) : v \in PriceValues}
    \cup {Obj2("preco_brl", v, "preco_brl_texto", PyStr(<<"R", "$", " ", "7", ",", "0", "0">>)) :
            v \in PriceValues}
    \cup {Obj2("preco_brl", v, "preco_texto", Text("gratis")) :
            v \in {None, PyStr(<<>>), PyList(<<>>)}}

Until == Obj2("tipo", PyStr(<<>>), "valor", Text("until 5/1"))
NoKind == Obj1("valor", Text("frete"))
NoValue == Obj2("tipo", Text("data"), "valor", None)
CondElems == {Discount, Until, NoKind, NoValue, Text("loose")}

CondValues ==
    {PyList(c) : c \in SeqsUpTo(CondElems, MaxConds)}
    \cup {None, EmptyDict, Discount, Until, Text("frete gratis"), Num(<<"5">>, <<>>), Zero,
          PyBool(TRUE), PyBool(FALSE)}

CondProducts ==
    {Obj2("nome", Text("Soap"), "condicoes", c) : c \in CondValues}
    \cup {Obj1("nome", Text("Soap"))}

NormalizeReplies ==
    {BareReply(ProductsPayload(<<p>>)) : p \in PriceProducts \cup CondProducts}
    \cup {FailingCall}

InitNormalize == InitWith(SeqsUpTo({"banner1.jpg"}, 1), NormalizeReplies, {TRUE})

SpecNormalize == InitNormalize /\ [][Next]_vars

\* the single raw product of the reply has been normalised
Normalized == idx = 1 /\ WellFormed(replies[1]) /\ log[1].exc = "" /\ Len(products) = 1
RawProduct == RawProductsOf(replies[1])[1]
RawPrice == Get(RawProduct, K("preco_brl"))

\* C3 as stated: a price field that is a Brazilian-format string (optional "R$"
\* and spaces, "." grouping thousands, "," before the decimals) normalises to
\* the amount it denotes; a price field that is a number keeps its value.
C3_Stated ==
    Normalized =>
        /\ \A d \in BRPrices :
              RawPrice = BRField[d] => products[1].preco_brl = BRAmount(d)
        /\ RawPrice.t = "num" => products[1].preco_brl = RawPrice

\* float() reads the text by itself: no marker, no decimal comma, one group
DotDecimal(d) == d.marker = <<>> /\ d.cents = <<>> /\ Len(d.groups) = 1

\* C3 amended: a price field that is a Brazilian-format string normalises to the
\* amount it denotes, except a string without marker and without decimal comma
\* whose digits hold exactly one grouping dot (such as "1.234", spaces around it
\* or not), which is read as the dot-decimal number (1.234); a price field that
\* is a number keeps its value.
C3_BrazilianPrice ==
    Normalized =>
        /\ \A d \in BRPrices :
              RawPrice = BRField[d] =>
                  products[1].preco_brl =
                      IF DotDecimal(d) THEN Num(d.head, d.groups[1])
                      ELSE BRAmount(d)
        /\ RawPrice.t = "num" => products[1].preco_brl = RawPrice

\* "R$ 1.234,56" has been normalised to 1234.56
W_C3_BrazilianPrice ==
    /\ Normalized
    /\ RawPrice = PyStr(<<"R", "$", " ", "1", ".", "2", "3", "4", ",", "5", "6">>)
    /\ products[1].preco_brl =
          [t |-> "num", ip |-> <<"1", "2", "3", "4">>, fp |-> <<"5", "6">>]

\* C6: in every record the normaliser produces, price_value is absent or a
\* finite number, never NaN, an infinity or a string.
C6_FinitePrice ==
    (idx = 1 /\ log[1].exc = "") =>
        \A k \in 1..Len(products) : products[k].preco_brl.t \in {"none", "num"}

\* neither float() of the price field nor float() of the cleaned text of the
\* price field or textual-price field gives a number
NoPriceFound(p) ==
    /\ \/ Get(p, K("preco_brl")) = None
       \/ PyFloat(Get(p, K("preco_brl"))).exc # ""
    /\ FloatOfText(CleanPriceText(PriceText(p))).exc # ""

\* C7: when neither direct coercion of the price field nor the cleanup of the
\* price field or textual-price field yields a number, the record is still
\* produced, with price_value absent (not zero) and no error raised.
C7_UnknownPrice ==
    (idx = 1 /\ WellFormed(replies[1]) /\ NoPriceFound(RawProduct)) =>
        /\ log[1].exc = ""
        /\ Len(products) = 1
        /\ Len(collected) = 1
        /\ products[1].preco_brl = None
        /\ products[1].preco_brl # Zero

\* the price field "abc" (float() fails twice) has been normalised
W_C7_UnknownPrice ==
    /\ Normalized
    /\ RawPrice = PyStr(<<"a", "b", "c">>)
    /\ NoPriceFound(RawProduct)
    /\ products[1].preco_brl = None

RawConditions == Get(RawProduct, K("condicoes"))

\* C9: after normalisation conditions is always a sequence: a single mapping
\* becomes a one-element sequence holding it, a sequence is kept as it is, any
\* other raw value becomes the empty sequence.
C9_ConditionsSequence ==
    Normalized =>
        /\ products[1].condicoes.t = "list"
        /\ RawConditions.t = "dict" => products[1].condicoes = PyList(<<RawConditions>>)
        /\ RawConditions.t = "list" => products[1].condicoes = RawConditions
        /\ RawConditions.t \notin {"dict", "list"} => products[1].condicoes = PyList(<<>>)

\* the kind and the value of a condition pair, as rendered
KindOf(c) ==
    IF K("tipo") \in DOMAIN c.d /\ c.d[K("tipo")].t = "str" /\ c.d[K("tipo")].s # <<>>
    THEN c.d[K("tipo")].s ELSE <<"outro">>
ValueOf(c) ==
    IF K("valor") \in DOMAIN c.d /\ c.d[K("valor")].t = "str" THEN c.d[K("valor")].s
    ELSE <<>>

\* "<kind>: <value>" of each pair, in order, "; " before all but the first
RECURSIVE Rendered(_)
Rendered(conds) ==
    IF conds = <<>> THEN <<>>
    ELSE LET front == SubSeq(conds, 1, Len(conds) - 1)
             c == conds[Len(conds)]
         IN  (IF front = <<>> THEN <<>> ELSE Rendered(front) \o <<";", " ">>)
                 \o KindOf(c) \o <<":", " ">> \o ValueOf(c)

AllPairs(conds) == \A i \in 1..Len(conds) : conds[i].t = "dict"

====
